---- MODULE Spec2Model ----
(***************************************************************************)
(* Model of calculate_lat_lon_point.py: two-circle trilateration on a      *)
(* local transverse-Mercator plane around point A.                         *)
(*                                                                         *)
(* Numbers.  A Python float / numpy float64 is modelled as a pair <<n, d>>:*)
(*   d > 0      the rational n/d in lowest terms,                          *)
(*   <<0, 0>>   nan,   <<1, 0>> +inf,   <<-1, 0>> -inf.                    *)
(* The variable arith fixes the number system a behaviour runs in:         *)
(*   "exact"  every operation returns the exact rational result;           *)
(*   "float"  every operation rounds its exact result to the nearest       *)
(*            binary floating-point number (ties to even), as IEEE 754     *)
(*            does, with a significand of MantBits bits where float64 has  *)
(*            53 and with an unbounded exponent.                           *)
(* In both, 0/0 and the square root of a negative number are nan, as numpy *)
(* scalars compute them (a RuntimeWarning, no exception).                  *)
(***************************************************************************)
EXTENDS Integers, Sequences, FiniteSets, TLC

VARIABLES
    arith,      \* "exact" | "float": the number system of this behaviour
    pc,         \* position of the script / of the calling harness
    local_tm,   \* the Transformer: [lon_0, lat_0, x_0, y_0]
    A_lon, A_lat, B_lon, B_lat, dA, dB,      \* the script's inputs
    xB, yB,     \* B in the local plane
    C_local,    \* <<C1_local, C2_local>> once computed
    C_latlon,   \* << <<C1_lat, C1_lon>>, <<C2_lat, C2_lon>> >> as converted
    stdout,     \* what the script printed, in order
    verified,   \* << <<dist_A, dist_B>>, ... >> of the verification loop
    args,       \* arguments of a direct call of one function
    ret,        \* its result
    ret2        \* result of the second call made on it (swapped / inverse)

vars == <<arith, pc, local_tm, A_lon, A_lat, B_lon, B_lat, dA, dB, xB, yB,
          C_local, C_latlon, stdout, verified, args, ret, ret2>>

----------------------------------------------------------------------------
(* Bounds of the model *)

\* significand width of the "float" number system (float64: 53)
MantBits == 4
\* direct calls of circle_intersection: centre coordinates in -MaxCoord..MaxCoord
MaxCoord == 2
\* direct calls of circle_intersection: radii in 0..MaxRadius (and one negative)
MaxRadius == 5
\* float inputs are the multiples of 1/4 up to MaxQuarter/4
MaxQuarter == 6
\* decimal degrees given to decimal_to_dms are the multiples of 1/DmsDen
DmsDen == 7

----------------------------------------------------------------------------
(* Exact rational arithmetic *)

RECURSIVE GCD(_, _)
GCD(a, b) == IF b = 0 THEN a ELSE GCD(b, a % b)

AbsInt(n) == IF n < 0 THEN -n ELSE n

\* the rational n/d (d # 0) in lowest terms with a positive denominator
Q(n, d) ==
    LET g == GCD(AbsInt(n), AbsInt(d))
        s == IF d < 0 THEN -1 ELSE 1
    IN  <<(s * n) \div g, (s * d) \div g>>

I(n) == <<n, 1>>
NaN == <<0, 0>>
PInf == <<1, 0>>
NInf == <<-1, 0>>

IsFinite(x) == x[2] # 0
IsNaN(x) == x = NaN
IsInf(x) == x[2] = 0 /\ x[1] # 0
Sign(x) == IF x[1] > 0 THEN 1 ELSE IF x[1] < 0 THEN -1 ELSE 0
InfOf(s) == IF s > 0 THEN PInf ELSE NInf

RAdd(x, y) == Q(x[1] * y[2] + y[1] * x[2], x[2] * y[2])
RSub(x, y) == Q(x[1] * y[2] - y[1] * x[2], x[2] * y[2])
RMul(x, y) == Q(x[1] * y[1], x[2] * y[2])
RDiv(x, y) == Q(x[1] * y[2], x[2] * y[1])
RNeg(x) == <<-x[1], x[2]>>
RLt(x, y) == x[1] * y[2] < y[1] * x[2]
RLe(x, y) == x[1] * y[2] <= y[1] * x[2]

RECURSIVE ISqrtFrom(_, _)
ISqrtFrom(n, k) == IF (k + 1) * (k + 1) > n THEN k ELSE ISqrtFrom(n, k + 1)
\* floor of the square root of a natural number
ISqrt(n) == ISqrtFrom(n, 0)

IsSquareInt(n) == ISqrt(n) * ISqrt(n) = n
\* a non-negative rational whose square root is rational
IsSquare(x) == x[1] >= 0 /\ x[2] > 0 /\ IsSquareInt(x[1]) /\ IsSquareInt(x[2])

----------------------------------------------------------------------------
(* Binary floating point: round to nearest, ties to even *)

RECURSIVE TwoTo(_)
TwoTo(k) == IF k = 0 THEN 1 ELSE 2 * TwoTo(k - 1)

\* n/d >= 0 rounded to the nearest integer, ties to even
NearestEven(n, d) ==
    LET k == n \div d
        r == n - k * d
    IN  IF 2 * r > d \/ (2 * r = d /\ k % 2 = 1) THEN k + 1 ELSE k

\* the positive rational n/d rounded to MantBits significant bits
RECURSIVE RoundPos(_, _)
RoundPos(n, d) ==
    IF n >= TwoTo(MantBits) * d THEN RMul(I(2), RoundPos(n, 2 * d))
    ELSE IF n < TwoTo(MantBits - 1) * d THEN RDiv(RoundPos(2 * n, d), I(2))
    ELSE I(NearestEven(n, d))

\* a finite rational rounded to the float format
Fl(x) ==
    IF x[1] = 0 THEN x
    ELSE IF x[1] > 0 THEN RoundPos(x[1], x[2])
    ELSE RNeg(RoundPos(-x[1], x[2]))

\* the correctly rounded square root of the positive rational n/d
RECURSIVE SqrtPos(_, _)
SqrtPos(n, d) ==
    IF n >= TwoTo(2 * MantBits) * d THEN RMul(I(2), SqrtPos(n, 4 * d))
    ELSE IF n < TwoTo(2 * MantBits - 2) * d THEN RDiv(SqrtPos(4 * n, d), I(2))
    ELSE LET k == ISqrt(n \div d)
             \* n/d against (k + 1/2)^2 = (2k+1)^2 / 4
             lhs == 4 * n
             rhs == (2 * k + 1) * (2 * k + 1) * d
         IN  IF lhs > rhs \/ (lhs = rhs /\ k % 2 = 1) THEN I(k + 1) ELSE I(k)

\* the result of one arithmetic operation whose exact value is x
Round(x) == IF arith = "float" THEN Fl(x) ELSE x

\* square root of a non-negative rational: exact (the model's exact inputs are
\* those whose roots are rational), or correctly rounded
RootOf(x) ==
    IF x[1] = 0 THEN x
    ELSE IF arith = "float" THEN SqrtPos(x[1], x[2])
    ELSE CHOOSE r \in {<<ISqrt(x[1]), ISqrt(x[2])>>} : IsSquare(x)

----------------------------------------------------------------------------
(* Python / numpy float operations, nan and inf included *)

Add(x, y) ==
    IF IsNaN(x) \/ IsNaN(y) THEN NaN
    ELSE IF IsInf(x) /\ IsInf(y) THEN (IF x = y THEN x ELSE NaN)
    ELSE IF IsInf(x) THEN x
    ELSE IF IsInf(y) THEN y
    ELSE Round(RAdd(x, y))

Neg(x) == IF IsFinite(x) THEN RNeg(x) ELSE <<-x[1], 0>>

Sub(x, y) == Add(x, Neg(y))

Mul(x, y) ==
    IF IsNaN(x) \/ IsNaN(y) THEN NaN
    ELSE IF IsInf(x) \/ IsInf(y)
         THEN (IF Sign(x) * Sign(y) = 0 THEN NaN ELSE InfOf(Sign(x) * Sign(y)))
    ELSE Round(RMul(x, y))

\* numpy scalar division: x/0 is nan for x = 0 and +-inf otherwise
Div(x, y) ==
    IF IsNaN(x) \/ IsNaN(y) THEN NaN
    ELSE IF IsInf(x) THEN (IF IsInf(y) THEN NaN
                           ELSE InfOf(Sign(x) * (IF Sign(y) < 0 THEN -1 ELSE 1)))
    ELSE IF IsInf(y) THEN I(0)
    ELSE IF y[1] = 0 THEN (IF x[1] = 0 THEN NaN ELSE InfOf(Sign(x)))
    ELSE Round(RDiv(x, y))

\* x ** 2
Sq(x) == Mul(x, x)

\* abs(x)
Abs(x) == IF Sign(x) < 0 THEN Neg(x) ELSE x

\* x < y and x > y: False when either is nan
Lt(x, y) ==
    IF IsNaN(x) \/ IsNaN(y) THEN FALSE
    ELSE IF IsInf(x) \/ IsInf(y)
         THEN x # y /\ (x = NInf \/ y = PInf)
    ELSE RLt(x, y)

Gt(x, y) == Lt(y, x)

\* np.sqrt: nan for a negative or nan argument
Sqrt(x) ==
    IF IsNaN(x) \/ Sign(x) < 0 THEN NaN
    ELSE IF IsInf(x) THEN x
    ELSE RootOf(x)

\* np.hypot: the root of the exact sum of squares, rounded once
Hypot(x, y) ==
    IF IsInf(x) \/ IsInf(y) THEN PInf
    ELSE IF IsNaN(x) \/ IsNaN(y) THEN NaN
    ELSE RootOf(RAdd(RMul(x, x), RMul(y, y)))

----------------------------------------------------------------------------
(* circle_intersection(x1, y1, r1, x2, y2, r2) *)

ci_d(x1, y1, x2, y2) == Hypot(Sub(x2, x1), Sub(y2, y1))

\* a guard that also rejects tangent circles (>= for >, <= for <)
ci_guard_nonstrict(d, r1, r2) ==
    ~Lt(d, Add(r1, r2)) \/ ~Gt(d, Abs(Sub(r1, r2)))

\* a guard that forgets abs()
ci_guard_noabs(d, r1, r2) == Gt(d, Add(r1, r2)) \/ Lt(d, Sub(r1, r2))

\* if d > r1 + r2 or d < abs(r1 - r2): raise ValueError
ci_guard(d, r1, r2) == Gt(d, Add(r1, r2)) \/ Lt(d, Abs(Sub(r1, r2)))

ci_a(r1, r2, d) == Div(Add(Sub(Sq(r1), Sq(r2)), Sq(d)), Mul(I(2), d))

ci_h(r1, a) == Sqrt(Sub(Sq(r1), Sq(a)))

ci_xm(x1, x2, a, d) == Add(x1, Div(Mul(a, Sub(x2, x1)), d))

ci_ym(y1, y2, a, d) == Add(y1, Div(Mul(a, Sub(y2, y1)), d))

\* dx with the sign of the offset flipped
ci_dx_flipped(h, y1, y2, d) == Div(Mul(h, Sub(y1, y2)), d)

ci_dx(h, y1, y2, d) == Div(Mul(h, Sub(y2, y1)), d)

\* dy with the sign of the offset flipped: the offset is no longer perpendicular
ci_dy_flipped(h, x1, x2, d) == Div(Mul(h, Sub(x2, x1)), d)

ci_dy(h, x1, x2, d) == Div(Mul(h, Sub(x1, x2)), d)

\* a point both of whose coordinates are finite
FinitePoint(p) == IsFinite(p[1]) /\ IsFinite(p[2])

\* the outcome of a call: the exception raised ("" for none) and the value returned
Raise(e) == [exc |-> e, value |-> <<>>]
Return(v) == [exc |-> "", value |-> v]

circle_intersection(x1, y1, r1, x2, y2, r2) ==
    LET d == ci_d(x1, y1, x2, y2)
    IN  IF ci_guard(d, r1, r2) THEN Raise("ValueError")
        ELSE LET a == ci_a(r1, r2, d)
                 h == ci_h(r1, a)
                 xm == ci_xm(x1, x2, a, d)
                 ym == ci_ym(y1, y2, a, d)
                 dx == ci_dx(h, y1, y2, d)
                 dy == ci_dy(h, x1, x2, d)
             IN  Return(<< <<Add(xm, dx), Add(ym, dy)>>,
                           <<Sub(xm, dx), Sub(ym, dy)>> >>)

----------------------------------------------------------------------------
(* dms_to_decimal and decimal_to_dms *)

\* d + m / 60 + s / 3600, with s / 60 written for s / 3600
dms_to_decimal_s60(d, m, s) == Add(Add(d, Div(m, I(60))), Div(s, I(60)))

dms_to_decimal(d, m, s) == Add(Add(d, Div(m, I(60))), Div(s, I(3600)))

\* rounding a finite number down
FloorInt(x) == I(x[1] \div x[2])

\* int(x) of a finite float: truncation toward zero
PyInt(x) == IF x[1] >= 0 THEN I(x[1] \div x[2]) ELSE I(-((-x[1]) \div x[2]))

\* int() raises ValueError on nan and OverflowError on an infinity
decimal_to_dms(deg) ==
    IF IsNaN(deg) THEN Raise("ValueError")
    ELSE IF IsInf(deg) THEN Raise("OverflowError")
    ELSE LET d == PyInt(deg)
             f == Mul(Sub(deg, d), I(60))
             m == PyInt(f)
             s == Mul(Sub(f, m), I(60))
         IN  Return(<<d, m, s>>)

----------------------------------------------------------------------------
(* The pyproj objects.  local_tm = [lon_0, lat_0, x_0, y_0] is a transverse  *)
(* Mercator projection with its natural origin at (lon_0, lat_0) and false   *)
(* origin (x_0, y_0).  Near its origin the library's map is modelled as the  *)
(* invertible map that scales degrees of longitude and of latitude to metres *)
(* by two different factors; geod.inv measures with the same factors.        *)

\* metres per degree of longitude and of latitude at the origin
ScaleE == 3
ScaleN == 4

\* local_tm.transform(lon, lat)
Transform(tm, lon, lat) ==
    <<Add(tm.x_0, Mul(I(ScaleE), Sub(lon, tm.lon_0))),
      Add(tm.y_0, Mul(I(ScaleN), Sub(lat, tm.lat_0)))>>

\* local_tm.transform(e, n, direction='INVERSE')
TransformInverse(tm, e, n) ==
    <<Add(tm.lon_0, Div(Sub(e, tm.x_0), I(ScaleE))),
      Add(tm.lat_0, Div(Sub(n, tm.y_0), I(ScaleN)))>>

\* geod.inv(lon1, lat1, lon2, lat2)[2]
geod_inv(lon1, lat1, lon2, lat2) ==
    Hypot(Mul(I(ScaleE), Sub(lon2, lon1)), Mul(I(ScaleN), Sub(lat2, lat1)))

latlon_to_local(lon, lat) ==
    LET en == Transform(local_tm, lon, lat)
        en0 == Transform(local_tm, A_lon, A_lat)
    IN  <<Sub(en[1], en0[1]), Sub(en[2], en0[2])>>

\* local_to_latlon returning its pair as (lon, lat)
local_to_latlon_lonlat(e, n) ==
    LET en0 == Transform(local_tm, A_lon, A_lat)
    IN  TransformInverse(local_tm, Add(e, en0[1]), Add(n, en0[2]))

local_to_latlon(e, n) ==
    LET en0 == Transform(local_tm, A_lon, A_lat)
        lonlat == TransformInverse(local_tm, Add(e, en0[1]), Add(n, en0[2]))
    IN  <<lonlat[2], lonlat[1]>>

----------------------------------------------------------------------------
(* State of a behaviour that does not run that part of the program *)

NoResult == [exc |-> "pending", value |-> <<>>]

ScriptIdle ==
    /\ local_tm = [lon_0 |-> I(0), lat_0 |-> I(0), x_0 |-> I(0), y_0 |-> I(0)]
    /\ A_lon = I(0) /\ A_lat = I(0) /\ B_lon = I(0) /\ B_lat = I(0)
    /\ dA = I(0) /\ dB = I(0)
    /\ xB = NaN /\ yB = NaN
    /\ C_local = <<>> /\ C_latlon = <<>> /\ stdout = <<>> /\ verified = <<>>

ScriptVars == <<local_tm, A_lon, A_lat, B_lon, B_lat, dA, dB, xB, yB,
                C_local, C_latlon, stdout, verified>>

----------------------------------------------------------------------------
(* Direct calls of circle_intersection, and of it with the circles swapped *)

\* integer inputs whose centre distance and half-chord are rational, so that
\* the source's arithmetic is carried out exactly:  d^2 and
\* 4 d^2 (r1^2 - a^2) = 4 d^2 r1^2 - (r1^2 - r2^2 + d^2)^2  are squares
ExactCircleInts(x1, y1, r1, x2, y2, r2) ==
    LET D2 == (x2 - x1) * (x2 - x1) + (y2 - y1) * (y2 - y1)
        K == r1 * r1 - r2 * r2 + D2
        R4 == 4 * D2 * r1 * r1 - K * K
    IN  IsSquareInt(D2) /\ (R4 < 0 \/ IsSquareInt(R4))

Coords == (0 - MaxCoord)..MaxCoord
Radii == (0 - 1)..MaxRadius
Quarters == {Q(k, 4) : k \in 0..MaxQuarter}

InitCircle ==
    /\ arith = "exact"
    /\ pc = "call_circle"
    /\ \E x1 \in Coords, y1 \in Coords, r1 \in Radii,
          x2 \in Coords, y2 \in Coords, r2 \in Radii :
            /\ ExactCircleInts(x1, y1, r1, x2, y2, r2)
            /\ args = <<I(x1), I(y1), I(r1), I(x2), I(y2), I(r2)>>
    /\ ret = NoResult /\ ret2 = NoResult
    /\ ScriptIdle

InitCircleFloat ==
    /\ arith = "float"
    /\ pc = "call_circle"
    /\ args \in {I(0)} \X {I(0), Q(1, 4)} \X Quarters \X Quarters \X Quarters \X Quarters
    /\ ret = NoResult /\ ret2 = NoResult
    /\ ScriptIdle

CallCircle ==
    /\ pc = "call_circle"
    /\ ret' = circle_intersection(args[1], args[2], args[3], args[4], args[5], args[6])
    /\ pc' = "call_circle_swapped"
    /\ UNCHANGED <<arith, args, ret2, ScriptVars>>

CallCircleSwapped ==
    /\ pc = "call_circle_swapped"
    /\ ret2' = circle_intersection(args[4], args[5], args[6], args[1], args[2], args[3])
    /\ pc' = "returned"
    /\ UNCHANGED <<arith, args, ret, ScriptVars>>

NextCircle == CallCircle \/ CallCircleSwapped

SpecCircle == InitCircle /\ [][NextCircle]_vars

SpecCircleFloat == InitCircleFloat /\ [][NextCircle]_vars

----------------------------------------------------------------------------
(* Direct calls of decimal_to_dms, and of dms_to_decimal on its result *)

InitDms ==
    /\ arith = "exact"
    /\ pc = "call_decimal_to_dms"
    /\ \E n \in (0 - 180 * DmsDen)..(180 * DmsDen) : args = <<Q(n, DmsDen)>>
    /\ ret = NoResult /\ ret2 = NoResult
    /\ ScriptIdle

CallDecimalToDms ==
    /\ pc = "call_decimal_to_dms"
    /\ ret' = decimal_to_dms(args[1])
    /\ pc' = "call_dms_to_decimal"
    /\ UNCHANGED <<arith, args, ret2, ScriptVars>>

CallDmsToDecimal ==
    /\ pc = "call_dms_to_decimal"
    /\ ret.exc = ""
    /\ ret2' = Return(dms_to_decimal(ret.value[1], ret.value[2], ret.value[3]))
    /\ pc' = "returned_dms"
    /\ UNCHANGED <<arith, args, ret, ScriptVars>>

NextDms == CallDecimalToDms \/ CallDmsToDecimal

SpecDms == InitDms /\ [][NextDms]_vars

----------------------------------------------------------------------------
(* Direct calls of latlon_to_local, and of local_to_latlon on its result,   *)
(* for a Transformer with any false origin                                   *)

\* the points of the harness lie within MaxOffset quarter degrees of A
MaxOffset == 2
Offsets == {Q(k, 4) : k \in (0 - MaxOffset)..MaxOffset}
Origins == {I(1), Q(5, 2)}
FalseOrigins == {I(0), I(500)}

InitProj ==
    /\ arith = "exact"
    /\ pc = "call_latlon_to_local"
    /\ A_lon \in Origins /\ A_lat \in Origins
    /\ \E x0 \in FalseOrigins, y0 \in FalseOrigins :
          local_tm = [lon_0 |-> A_lon, lat_0 |-> A_lat, x_0 |-> x0, y_0 |-> y0]
    /\ \E dlon \in Offsets, dlat \in Offsets :
          args = <<RAdd(A_lon, dlon), RAdd(A_lat, dlat)>>
    /\ B_lon = I(0) /\ B_lat = I(0) /\ dA = I(0) /\ dB = I(0)
    /\ xB = NaN /\ yB = NaN
    /\ C_local = <<>> /\ C_latlon = <<>> /\ stdout = <<>> /\ verified = <<>>
    /\ ret = NoResult /\ ret2 = NoResult

CallLatlonToLocal ==
    /\ pc = "call_latlon_to_local"
    /\ ret' = Return(latlon_to_local(args[1], args[2]))
    /\ pc' = "call_local_to_latlon"
    /\ UNCHANGED <<arith, args, ret2, ScriptVars>>

CallLocalToLatlon ==
    /\ pc = "call_local_to_latlon"
    /\ ret2' = Return(local_to_latlon(ret.value[1], ret.value[2]))
    /\ pc' = "returned_proj"
    /\ UNCHANGED <<arith, args, ret, ScriptVars>>

NextProj == CallLatlonToLocal \/ CallLocalToLatlon

SpecProj == InitProj /\ [][NextProj]_vars

----------------------------------------------------------------------------
(* The script, top to bottom *)

Init ==
    /\ arith = "float"
    /\ pc = "project_B"
    /\ A_lon \in Origins /\ A_lat \in Origins
    /\ local_tm = [lon_0 |-> A_lon, lat_0 |-> A_lat, x_0 |-> I(0), y_0 |-> I(0)]
    /\ \E dlon \in Offsets, dlat \in Offsets :
          /\ B_lon = RAdd(A_lon, dlon)
          /\ B_lat = RAdd(A_lat, dlat)
    /\ dA \in Quarters /\ dB \in Quarters
    /\ xB = NaN /\ yB = NaN
    /\ C_local = <<>> /\ C_latlon = <<>> /\ stdout = <<>> /\ verified = <<>>
    /\ args = <<>> /\ ret = NoResult /\ ret2 = NoResult

Inputs == <<arith, local_tm, A_lon, A_lat, B_lon, B_lat, dA, dB>>

\* xB, yB = latlon_to_local(B_lon, B_lat)
ProjectB ==
    /\ pc = "project_B"
    /\ xB' = latlon_to_local(B_lon, B_lat)[1]
    /\ yB' = latlon_to_local(B_lon, B_lat)[2]
    /\ pc' = "intersect"
    /\ UNCHANGED <<Inputs, C_local, C_latlon, stdout, verified, args, ret, ret2>>

\* try: C1_local, C2_local = circle_intersection(xA, yA, dA, xB, yB, dB)
\* except ValueError as e: print(e); exit()
Intersect ==
    /\ pc = "intersect"
    /\ args' = <<I(0), I(0), dA, xB, yB, dB>>
    /\ ret' = circle_intersection(I(0), I(0), dA, xB, yB, dB)
    /\ IF ret'.exc = "ValueError"
       THEN /\ stdout' = Append(stdout, [kind |-> "error", data |-> <<>>])
            /\ pc' = "exited"
            /\ UNCHANGED C_local
       ELSE /\ C_local' = ret'.value
            /\ pc' = "convert"
            /\ UNCHANGED stdout
    /\ UNCHANGED <<Inputs, xB, yB, C_latlon, verified, ret2>>

\* what local_to_latlon can return: for a point with a nan coordinate the
\* library reports the failed transformation as nan or inf, without raising
LocalToLatlonResults(p) ==
    IF FinitePoint(p) THEN {local_to_latlon(p[1], p[2])}
    ELSE {<<NaN, NaN>>, <<PInf, PInf>>}

\* C1_lat, C1_lon = local_to_latlon(*C1_local), then the same for C2
Convert ==
    /\ pc = "convert"
    /\ \E v \in LocalToLatlonResults(C_local[Len(C_latlon) + 1]) :
          C_latlon' = Append(C_latlon, v)
    /\ pc' = IF Len(C_latlon) = 1 THEN "print_decimal" ELSE "convert"
    /\ UNCHANGED <<Inputs, xB, yB, C_local, stdout, verified, args, ret, ret2>>

\* the two f-string lines: formatting a nan or inf does not raise
PrintDecimal ==
    /\ pc = "print_decimal"
    /\ stdout' = stdout \o <<[kind |-> "decimal", data |-> C_latlon[1]],
                             [kind |-> "decimal", data |-> C_latlon[2]]>>
    /\ pc' = "print_dms"
    /\ UNCHANGED <<Inputs, xB, yB, C_local, C_latlon, verified, args, ret, ret2>>

\* the two format(*decimal_to_dms(lat), *decimal_to_dms(lon)) lines; an
\* exception of decimal_to_dms is not caught and ends the script
PrintDms ==
    /\ pc = "print_dms"
    /\ LET i == Len(SelectSeq(stdout, LAMBDA l : l.kind = "dms")) + 1
           lat == decimal_to_dms(C_latlon[i][1])
           lon == decimal_to_dms(C_latlon[i][2])
       IN  IF lat.exc # "" \/ lon.exc # ""
           THEN /\ pc' = "crashed"
                /\ UNCHANGED stdout
           ELSE /\ stdout' = Append(stdout, [kind |-> "dms", data |-> lat.value \o lon.value])
                /\ pc' = IF i = 2 THEN "verify" ELSE "print_dms"
    /\ UNCHANGED <<Inputs, xB, yB, C_local, C_latlon, verified, args, ret, ret2>>

\* for idx, (lat, lon) in enumerate([(C1_lat, C1_lon), (C2_lat, C2_lon)], 1)
Verify ==
    /\ pc = "verify"
    /\ LET i == Len(verified) + 1
           lat == C_latlon[i][1]
           lon == C_latlon[i][2]
           dist_A == geod_inv(A_lon, A_lat, lon, lat)
           dist_B == geod_inv(B_lon, B_lat, lon, lat)
       IN  /\ verified' = Append(verified, <<dist_A, dist_B>>)
           /\ stdout' = Append(stdout, [kind |-> "verify", data |-> <<dist_A, dist_B>>])
           /\ pc' = IF i = 2 THEN "done" ELSE "verify"
    /\ UNCHANGED <<Inputs, xB, yB, C_local, C_latlon, args, ret, ret2>>

Next == ProjectB \/ Intersect \/ Convert \/ PrintDecimal \/ PrintDms \/ Verify

Spec == Init /\ [][Next]_vars

----------------------------------------------------------------------------
(* Claims about circle_intersection *)

X1 == args[1]
Y1 == args[2]
R1 == args[3]
X2 == args[4]
Y2 == args[5]
R2 == args[6]

\* the call of circle_intersection has been made
Called == Len(args) = 6 /\ ret.exc # "pending"
\* the call returned two well-defined points
Succeeds(r) == r.exc = "" /\ FinitePoint(r.value[1]) /\ FinitePoint(r.value[2])

\* exact geometry of the two input circles
RSq(x) == RMul(x, x)
ExactD2 == RAdd(RSq(RSub(X2, X1)), RSq(RSub(Y2, Y1)))
TooFarApart == Sign(RAdd(R1, R2)) < 0 \/ RLt(RSq(RAdd(R1, R2)), ExactD2)
OneInsideOther == RLt(ExactD2, RSq(RSub(R1, R2)))
RadiiNonNegative == Sign(R1) >= 0 /\ Sign(R2) >= 0
Tangent ==
    RadiiNonNegative /\ (ExactD2 = RSq(RAdd(R1, R2)) \/ ExactD2 = RSq(RSub(R1, R2)))

\* the locals of the call, as the code computes them
Loc_d == ci_d(X1, Y1, X2, Y2)
Loc_a == ci_a(R1, R2, Loc_d)
Loc_h == ci_h(R1, Loc_a)
Loc_rad == Sub(Sq(R1), Sq(Loc_a))
Loc_ex == Div(Sub(X2, X1), Loc_d)
Loc_ey == Div(Sub(Y2, Y1), Loc_d)
Loc_M == <<Add(X1, Mul(Loc_a, Loc_ex)), Add(Y1, Mul(Loc_a, Loc_ey))>>

\* C1: circle_intersection raises ValueError (NoIntersection) exactly when the
\* centre distance d satisfies d > r1 + r2 or d < |r1 - r2|; for every other
\* input it does not raise.
C1_RaisesIffNoIntersection ==
    Called =>
        /\ ret.exc \in {"", "ValueError"}
        /\ ret.exc = "ValueError" <=> (TooFarApart \/ OneInsideOther)

\* a call that raised because one circle lies strictly inside the other
C1_Witness ==
    Called /\ ret.exc = "ValueError" /\ OneInsideOther /\ ~TooFarApart /\ Sign(ExactD2) > 0

\* C2: for non-negative radii (coincident centres included) the call either
\* returns two finite points or raises NoIntersection; nothing else.
C2_TwoFinitePointsOrNoIntersection ==
    (Called /\ RadiiNonNegative) => (ret.exc = "ValueError" \/ Succeeds(ret))

\* C3 as stated: the first returned point is M + h*(-ey, ex), the second
\* M - h*(-ey, ex).
C3_PlusPerpendicularFirst ==
    (Called /\ ret.exc = "") =>
        /\ ret.value[1] = <<Add(Loc_M[1], Mul(Loc_h, Neg(Loc_ey))),
                            Add(Loc_M[2], Mul(Loc_h, Loc_ex))>>
        /\ ret.value[2] = <<Sub(Loc_M[1], Mul(Loc_h, Neg(Loc_ey))),
                            Sub(Loc_M[2], Mul(Loc_h, Loc_ex))>>

\* C3 amended: the first returned point is M + h*(ey, -ex) (that is
\* M - h*(-ey, ex)), the second M - h*(ey, -ex), for every input that does not
\* raise.
C3_ClockwisePerpendicularFirst ==
    (Called /\ ret.exc = "") =>
        /\ ret.value[1] = <<Add(Loc_M[1], Mul(Loc_h, Loc_ey)),
                            Add(Loc_M[2], Mul(Loc_h, Neg(Loc_ex)))>>
        /\ ret.value[2] = <<Sub(Loc_M[1], Mul(Loc_h, Loc_ey)),
                            Sub(Loc_M[2], Mul(Loc_h, Neg(Loc_ex)))>>

\* a call that returned two distinct points for centres off both axes
C3_Witness ==
    /\ Called /\ Succeeds(ret)
    /\ ret.value[1] # ret.value[2]
    /\ X1 # X2 /\ Y1 # Y2

\* C5: swapping the two circles gives the same two points as a set, and one
\* call raises NoIntersection exactly when the other does.
C5_Symmetric ==
    pc = "returned" =>
        /\ ret.exc = "ValueError" <=> ret2.exc = "ValueError"
        /\ Succeeds(ret) =>
             /\ Succeeds(ret2)
             /\ {ret.value[1], ret.value[2]} = {ret2.value[1], ret2.value[2]}

\* both calls returned two distinct points, in swapped order, for unequal radii
C5_Witness ==
    /\ pc = "returned" /\ Succeeds(ret) /\ Succeeds(ret2)
    /\ ret.value[1] # ret.value[2]
    /\ ret.value[1] = ret2.value[2]
    /\ R1 # R2

\* C6: tangent circles with d > 0 (d = r1 + r2 or d = |r1 - r2|) do not raise
\* and return two well-defined points; the half-chord h is 0, never undefined,
\* when r1^2 - a^2 is not positive, and the two points then coincide in M.
C6_TangentCoincident ==
    (Called /\ Tangent /\ Sign(ExactD2) > 0) =>
        /\ Succeeds(ret)
        /\ ~(IsFinite(Loc_rad) /\ Sign(Loc_rad) > 0) => Loc_h = I(0)
        /\ Loc_h = I(0) => (ret.value[1] = ret.value[2] /\ ret.value[1] = Loc_M)

\* C10: when the call returns with d > 0, r1^2 - a^2 >= 0 and each returned
\* point P has |P - c1|^2 = r1^2 and |P - c2|^2 = r2^2.
OnCircle(p, cx, cy, r) ==
    FinitePoint(p) /\ RAdd(RSq(RSub(p[1], cx)), RSq(RSub(p[2], cy))) = RSq(r)

C10_PointsOnBothCircles ==
    (Called /\ ret.exc = "" /\ Sign(ExactD2) > 0) =>
        /\ IsFinite(Loc_rad) /\ Sign(Loc_rad) >= 0
        /\ \A i \in 1..2 :
             /\ OnCircle(ret.value[i], X1, Y1, R1)
             /\ OnCircle(ret.value[i], X2, Y2, R2)

\* a call that returned two distinct points off the axes, for unequal radii
C10_Witness ==
    /\ Called /\ ret.exc = "" /\ Sign(ExactD2) > 0
    /\ ret.value[1] # ret.value[2]
    /\ X1 # X2 /\ Y1 # Y2 /\ R1 # R2

----------------------------------------------------------------------------
(* Claims about the script *)

Terminated == pc \in {"exited", "done", "crashed"}
Printed(k) == Len(SelectSeq(stdout, LAMBDA l : l.kind = k))

\* C4: the script yields 0 or exactly 2 solutions, 0 only on NoIntersection:
\* when circle_intersection raises, the run ends at once with nothing
\* converted, printed as a result or verified; otherwise the two solutions are
\* converted in order and, by the end of the run, each is verified against A
\* and B.
C4_ZeroOrTwoVerifiedSolutions ==
    /\ ret.exc = "ValueError" =>
         /\ pc = "exited"
         /\ C_latlon = <<>> /\ verified = <<>>
         /\ Printed("decimal") = 0 /\ Printed("dms") = 0 /\ Printed("verify") = 0
    /\ \A i \in 1..Len(C_latlon) : C_latlon[i] \in LocalToLatlonResults(C_local[i])
    /\ (Terminated /\ ret.exc # "ValueError") =>
         /\ pc = "done"
         /\ Len(C_latlon) = 2
         /\ Len(verified) = 2 /\ Printed("verify") = 2

----------------------------------------------------------------------------
(* Claims about decimal_to_dms and dms_to_decimal *)

DmsReturned == pc \in {"call_dms_to_decimal", "returned_dms"} /\ ret.exc = ""
Deg == args[1]
DmsD == ret.value[1]
DmsM == ret.value[2]
DmsS == ret.value[3]

IsInteger(x) == x[2] = 1
RAbs(x) == IF x[1] < 0 THEN RNeg(x) ELSE x

\* d is x truncated toward zero
TruncatedTowardZero(x, d) ==
    /\ IsInteger(d)
    /\ Sign(d) * Sign(x) >= 0
    /\ RLe(RAbs(d), RAbs(x))
    /\ RLt(RAbs(x), RAdd(RAbs(d), I(1)))

\* C7 as stated: d is x truncated toward zero, m is an integer in 0..59 and
\* s is in [0, 60), for negative x too.
C7_MinutesSecondsNonNegative ==
    DmsReturned =>
        /\ TruncatedTowardZero(Deg, DmsD)
        /\ IsInteger(DmsM) /\ RLe(I(0), DmsM) /\ RLe(DmsM, I(59))
        /\ RLe(I(0), DmsS) /\ RLt(DmsS, I(60))

\* C7 amended: d is x truncated toward zero, m is an integer with |m| <= 59
\* and |s| < 60; m and s are non-negative for x >= 0 and non-positive for
\* x <= 0 (every component carries the sign of x).
C7_MinutesSecondsSignedLikeDegrees ==
    DmsReturned =>
        /\ TruncatedTowardZero(Deg, DmsD)
        /\ IsInteger(DmsM) /\ RLe(RAbs(DmsM), I(59))
        /\ RLt(RAbs(DmsS), I(60))
        /\ Sign(DmsM) * Sign(Deg) >= 0
        /\ Sign(DmsS) * Sign(Deg) >= 0
        /\ Sign(Deg) = 0 => (Sign(DmsM) = 0 /\ Sign(DmsS) = 0)

\* a negative x in (-1, 0) converted to d = 0 with negative minutes and seconds
C7_Witness ==
    /\ DmsReturned
    /\ Sign(Deg) < 0 /\ Sign(DmsD) = 0
    /\ Sign(DmsM) < 0 /\ Sign(DmsS) < 0

\* C8: dms_to_decimal(*decimal_to_dms(x)) = x for every x in [-180, 180].
C8_RoundTrip ==
    pc = "returned_dms" => (ret2.exc = "" /\ ret2.value = Deg)

\* a negative x with non-zero degrees, minutes and seconds went round
C8_Witness ==
    /\ pc = "returned_dms"
    /\ Sign(Deg) < 0
    /\ Sign(DmsD) # 0 /\ Sign(DmsM) # 0 /\ Sign(DmsS) # 0 /\ ~IsInteger(DmsS)

----------------------------------------------------------------------------
(* Claims about latlon_to_local and local_to_latlon *)

\* C9: local_to_latlon(*latlon_to_local(lon, lat)) returns (lat, lon): the
\* same latitude and the same longitude, not exchanged.
C9_RoundTrip ==
    pc = "returned_proj" => ret2.value = <<args[2], args[1]>>

\* a point off the origin, with latitude # longitude, under a false origin
C9_Witness ==
    /\ pc = "returned_proj"
    /\ args[1] # args[2]
    /\ args[1] # A_lon /\ args[2] # A_lat
    /\ local_tm.x_0 # I(0) /\ local_tm.y_0 # I(0)
    /\ ret.value # <<I(0), I(0)>>

====
